---- MODULE Spec2Model ----
(***************************************************************************)
(* Space Invaders emulator core (space_invaders_core.c): the port bridge,  *)
(* the frame scheduler, reset, and binary save/load of the machine state.  *)
(*                                                                         *)
(* The 8080 CPU engine (8080Core.h) and the bank memory (8080Memory.h) are *)
(* not part of the sources at hand; they are modelled from the design      *)
(* document: emulate8080, causeInt, reset8080, readByte, writeByte.        *)
(*                                                                         *)
(* Memory is sampled: mem holds the bytes at the addresses of RomAddrSeq   *)
(* and RamAddrSeq only; loops over an address range visit the sampled      *)
(* addresses of that range in ascending order.                             *)
(***************************************************************************)
EXTENDS Integers, Sequences, FiniteSets, TLC

VARIABLES e8080, si_state, mem, disk, snap, log

vars == <<e8080, si_state, mem, disk, snap, log>>

(***************************************************************************)
(* Program constants                                                       *)
(***************************************************************************)
SI_VRAM_START == 9216
SI_VRAM_END == 16384
SI_RAM_START == 8192
SI_RAM_SIZE == 8192
ROM_SIZE == 8192
RESET_VECTOR == 1
half_frame_cycles == 17066
INT_MID_SCREEN == 8
INT_END_SCREEN == 16
SAVE_VERSION == 1
INPUT_IDLE == 8
INPUT_MASK == 119
INT_ACK_CYCLES == 11
SPIN_CYCLES == 10

(***************************************************************************)
(* Bounds of the model                                                     *)
(***************************************************************************)
MaxFrames == 2
MaxBursts == 2

(***************************************************************************)
(* Integer helpers: C's >>, <<, & on unsigned values                       *)
(***************************************************************************)
RECURSIVE Pow2(_)
Pow2(n) == IF n <= 0 THEN 1 ELSE 2 * Pow2(n - 1)

Shr(x, n) == x \div Pow2(n)

Shl(x, n) == x * Pow2(n)

Bit(x, i) == Shr(x, i) % 2

RECURSIVE BitAnd(_, _)
BitAnd(x, y) ==
    IF x = 0 \/ y = 0 THEN 0
    ELSE (x % 2) * (y % 2) + 2 * BitAnd(x \div 2, y \div 2)

RECURSIVE BitOr(_, _)
BitOr(x, y) ==
    IF x = 0 THEN y
    ELSE IF y = 0 THEN x
    ELSE (IF x % 2 = 1 \/ y % 2 = 1 THEN 1 ELSE 0) + 2 * BitOr(x \div 2, y \div 2)

U8(x) == x % 256

U16(x) == x % 65536

Range(s) == {s[i] : i \in 1..Len(s)}

Min(a, b) == IF a < b THEN a ELSE b

(***************************************************************************)
(* Address space (8080Memory.h): one read-only bank 0x0000..0x1FFF and one *)
(* read-write bank 0x2000..0x3FFF, registered by si_init_with_config.      *)
(***************************************************************************)
RomAddrSeq == <<0, 8191>>

RamAddrSeq == <<8192, 8423, 8440, 8441, 8703, 9214, 9215, 9216, 16383>>

VramAddrSeq == <<9216, 16383>>

MemAddrs == Range(RomAddrSeq) \cup Range(RamAddrSeq)

AddrSeq == RomAddrSeq \o RamAddrSeq

\* The sampled addresses of [lo, hi), ascending: the range of a for loop.
AddrsIn(lo, hi) == SelectSeq(AddrSeq, LAMBDA a : lo <= a /\ a < hi)

Banks ==
    { [base |-> 0, len |-> ROM_SIZE, ro |-> TRUE],
      [base |-> SI_RAM_START, len |-> SI_RAM_SIZE, ro |-> FALSE] }

BankOf(addr) == {b \in Banks : b.base <= addr /\ addr < b.base + b.len}

readByte(m, addr) ==
    IF BankOf(addr) # {} /\ addr \in DOMAIN m THEN m[addr] ELSE 0

\* writeByte storing into read-only banks too.
writeByte_any(m, val, addr) ==
    IF BankOf(addr) # {} /\ addr \in DOMAIN m THEN [m EXCEPT ![addr] = val] ELSE m

writeByte(m, val, addr) ==
    IF \E b \in BankOf(addr) : ~b.ro
    THEN (IF addr \in DOMAIN m THEN [m EXCEPT ![addr] = val] ELSE m)
    ELSE m

(***************************************************************************)
(* Port bridge: si_port_in, si_port_out on the machine state record st     *)
(***************************************************************************)
\* si_port_in with port 2 reading the second DIP byte instead of the third.
si_port_in_dip1(st, port) ==
    CASE port = 0 -> st.config.dip_switches[1]
      [] port = 1 -> st.input_state
      [] port = 2 -> st.config.dip_switches[2]
      [] port = 3 -> (st.shift_reg \div Pow2(8 - st.shift_offset)) % 256
      [] OTHER -> 0

si_port_in(st, port) ==
    CASE port = 0 -> st.config.dip_switches[1]
      [] port = 1 -> st.input_state
      [] port = 2 -> st.config.dip_switches[3]
      [] port = 3 -> U8(Shr(st.shift_reg, 8 - st.shift_offset))
      [] OTHER -> 0

\* si_port_out storing the written byte in the low byte of the register.
si_port_out_low(st, port, value) ==
    CASE port = 2 -> [st EXCEPT !.shift_offset = value % 8]
      [] port = 4 -> [st EXCEPT !.shift_reg = BitOr(st.shift_reg \div 256, value)]
      [] OTHER -> st

\* si_port_out keeping four bits of the offset.
si_port_out_nibble(st, port, value) ==
    CASE port = 2 -> [st EXCEPT !.shift_offset = value % 16]
      [] port = 4 ->
            [st EXCEPT !.shift_reg = (st.shift_reg \div 256) + 256 * value]
      [] OTHER -> st

\* si_port_out shifting the register left to take the new byte in below.
si_port_out_left(st, port, value) ==
    CASE port = 2 -> [st EXCEPT !.shift_offset = value % 8]
      [] port = 4 ->
            [st EXCEPT !.shift_reg = ((st.shift_reg % 256) * 256) + value]
      [] OTHER -> st

\* si_port_out storing the offset without masking it to three bits.
si_port_out_raw(st, port, value) ==
    CASE port = 2 -> [st EXCEPT !.shift_offset = value]
      [] port = 4 ->
            [st EXCEPT !.shift_reg = (st.shift_reg \div 256) + 256 * value]
      [] OTHER -> st

si_port_out(st, port, value) ==
    CASE port = 2 -> [st EXCEPT !.shift_offset = BitAnd(value, 7)]
      [] port = 3 -> st
      [] port = 4 ->
            [st EXCEPT !.shift_reg =
                U16(BitOr(Shr(st.shift_reg, 8), U16(Shl(value, 8))))]
      [] port = 5 -> st
      [] port = 6 -> st
      [] OTHER -> st

(***************************************************************************)
(* A machine m is the record [cpu, st, mem, calls]: the CPU registers, the *)
(* machine state, the sampled memory, and the calls into the CPU engine    *)
(* and the port handlers made so far by the running operation.             *)
(***************************************************************************)
Call(fn, arg, ret) == [fn |-> fn, arg |-> arg, ret |-> ret]

Logged(m, fn, arg, ret) == [m EXCEPT !.calls = Append(m.calls, Call(fn, arg, ret))]

(***************************************************************************)
(* CPU engine (8080Core.h), from the design document.  A burst runs a      *)
(* program prefix, given as input, and then spins in a JMP loop at SpinPc  *)
(* until the budget is used up.                                            *)
(***************************************************************************)
SpinPc == 2782

Ins(t, x) == [t |-> t, x |-> x]

InsCycles(i) ==
    CASE i.t = "NOP" -> 4
      [] i.t = "HLT" -> 7
      [] i.t = "EI" -> 4
      [] i.t = "MVI" -> 7
      [] i.t = "OUT" -> 10
      [] i.t = "IN" -> 10
      [] i.t = "STA" -> 13
      [] i.t = "LXISP" -> 10

InsLen(i) ==
    CASE i.t \in {"NOP", "HLT", "EI"} -> 1
      [] i.t \in {"MVI", "OUT", "IN"} -> 2
      [] i.t \in {"STA", "LXISP"} -> 3

reset8080(pc) == [a |-> 0, sp |-> 0, pc |-> pc, IE |-> 0, halt |-> FALSE]

Exec(m, i) ==
    LET c == [m.cpu EXCEPT !.pc = U16(m.cpu.pc + InsLen(i))]
        n == [m EXCEPT !.cpu = c]
    IN  CASE i.t = "NOP" -> n
          [] i.t = "HLT" -> [n EXCEPT !.cpu.halt = TRUE]
          [] i.t = "EI" -> [n EXCEPT !.cpu.IE = 1]
          [] i.t = "MVI" -> [n EXCEPT !.cpu.a = i.x]
          [] i.t = "LXISP" -> [n EXCEPT !.cpu.sp = i.x]
          [] i.t = "STA" -> [n EXCEPT !.mem = writeByte(m.mem, m.cpu.a, i.x)]
          [] i.t = "OUT" ->
                Logged([n EXCEPT !.st = si_port_out(m.st, i.x, m.cpu.a)],
                       "portOut", i.x, m.cpu.a)
          [] i.t = "IN" ->
                Logged([n EXCEPT !.cpu.a = si_port_in(m.st, i.x)],
                       "portIn", i.x, si_port_in(m.st, i.x))

\* The spin loop: whole JMP instructions until consumed >= budget.
SpinTo(budget, consumed) ==
    IF consumed >= budget THEN consumed
    ELSE consumed + SPIN_CYCLES * ((budget - consumed + SPIN_CYCLES - 1) \div SPIN_CYCLES)

RECURSIVE RunBurst(_, _, _, _)
RunBurst(m, prog, budget, consumed) ==
    IF m.cpu.halt \/ consumed >= budget THEN [m |-> m, cycles |-> consumed]
    ELSE IF prog = <<>>
         THEN [m |-> [m EXCEPT !.cpu.pc = SpinPc], cycles |-> SpinTo(budget, consumed)]
         ELSE RunBurst(Exec(m, Head(prog)), Tail(prog), budget,
                       consumed + InsCycles(Head(prog)))

\* emulate8080(budget): a halted CPU idles the whole budget away.
emulate8080(m, budget, prog) ==
    LET r == IF m.cpu.halt THEN [m |-> m, cycles |-> budget]
             ELSE RunBurst(m, prog, budget, 0)
    IN  [m |-> Logged(r.m, "emulate8080", budget, r.cycles), cycles |-> r.cycles]

\* causeInt(vector): dropped when interrupts are disabled.
causeInt(m, vector) ==
    IF m.cpu.IE = 0 THEN Logged(m, "causeInt", vector, 0)
    ELSE LET sp1 == U16(m.cpu.sp + 65535)
             sp2 == U16(m.cpu.sp + 65534)
             m1 == writeByte(m.mem, Shr(m.cpu.pc, 8), sp1)
             m2 == writeByte(m1, U8(m.cpu.pc), sp2)
         IN  Logged([m EXCEPT !.mem = m2,
                              !.cpu = [m.cpu EXCEPT !.sp = sp2, !.pc = vector,
                                                    !.IE = 0, !.halt = FALSE]],
                    "causeInt", vector, INT_ACK_CYCLES)

(***************************************************************************)
(* Video decoder: si_update_framebuffer.  screen_ptr advances by 8 pixels  *)
(* for each video byte, so the byte at vram_addr lands on the pixels from  *)
(* 8 * (vram_addr - SI_VRAM_START) on.                                     *)
(***************************************************************************)
PixelIdxSeq ==
    [k \in 1..(8 * Len(VramAddrSeq)) |->
        8 * (VramAddrSeq[((k - 1) \div 8) + 1] - SI_VRAM_START) + ((k - 1) % 8)]

\* A pixel is a uint32_t, written here as its four bytes from the top one
\* down: 0xFFFFFFFF, 0xFF000000, and the 0 that memset leaves.
PixelWhite == <<255, 255, 255, 255>>

PixelBlack == <<255, 0, 0, 0>>

PixelZero == <<0, 0, 0, 0>>

\* si_update_framebuffer taking bit 7 of each byte first.
si_update_framebuffer_msb(m) ==
    [m EXCEPT !.st.screen_buf =
        [p \in DOMAIN m.st.screen_buf |->
            LET a == SI_VRAM_START + (p \div 8)
            IN  IF Bit(readByte(m.mem, a), 7 - (p % 8)) = 1
                THEN PixelWhite ELSE PixelBlack]]

RECURSIVE DecodeVram(_, _, _)
DecodeVram(mm, buf, addrs) ==
    IF addrs = <<>> THEN buf
    ELSE LET vram_addr == Head(addrs)
             b == readByte(mm, vram_addr)
             screen_ptr == 8 * (vram_addr - SI_VRAM_START)
         IN  DecodeVram(mm,
                        [p \in DOMAIN buf |->
                            IF screen_ptr <= p /\ p < screen_ptr + 8
                            THEN (IF Bit(b, p - screen_ptr) = 1
                                  THEN PixelWhite ELSE PixelBlack)
                            ELSE buf[p]],
                        Tail(addrs))

si_update_framebuffer(m) ==
    [m EXCEPT !.st.screen_buf =
        DecodeVram(m.mem, m.st.screen_buf, AddrsIn(SI_VRAM_START, SI_VRAM_END))]

(***************************************************************************)
(* Frame scheduler: si_step_frame, si_step_cycles.  frame_count (uint32_t) *)
(* and cycle_count (uint64_t) stay far below their wrap-around: MaxFrames  *)
(* and MaxBursts cap them in the guards of the stepping actions.           *)
(***************************************************************************)
\* si_step_frame counting the interrupt-acknowledge cycles too.
si_step_frame_ack(m, prog1, prog2) ==
    LET b1 == emulate8080(m, half_frame_cycles, prog1)
        i1 == causeInt(b1.m, INT_MID_SCREEN)
        a1 == IF b1.m.cpu.IE = 0 THEN 0 ELSE INT_ACK_CYCLES
        b2 == emulate8080(i1, half_frame_cycles, prog2)
        i2 == causeInt(b2.m, INT_END_SCREEN)
        a2 == IF b2.m.cpu.IE = 0 THEN 0 ELSE INT_ACK_CYCLES
        total == b1.cycles + a1 + b2.cycles + a2
        st == [i2.st EXCEPT !.frame_count = i2.st.frame_count + 1,
                            !.cycle_count = i2.st.cycle_count + total]
    IN  [m |-> [i2 EXCEPT !.st = st], ret |-> total]

\* si_step_frame raising no interrupt while the CPU is halted.
si_step_frame_awake(m, prog1, prog2) ==
    LET b1 == emulate8080(m, half_frame_cycles, prog1)
        i1 == IF b1.m.cpu.halt THEN b1.m ELSE causeInt(b1.m, INT_MID_SCREEN)
        b2 == emulate8080(i1, half_frame_cycles, prog2)
        i2 == IF b2.m.cpu.halt THEN b2.m ELSE causeInt(b2.m, INT_END_SCREEN)
        st == [i2.st EXCEPT
                 !.frame_count = i2.st.frame_count + 1,
                 !.cycle_count = i2.st.cycle_count + (b1.cycles + b2.cycles)]
    IN  [m |-> [i2 EXCEPT !.st = st], ret |-> b1.cycles + b2.cycles]

\* si_step_frame scaling its bursts by the speed multiplier when capped.
si_step_frame_paced(m, prog1, prog2) ==
    LET budget == IF m.st.config.uncapped THEN half_frame_cycles
                  ELSE half_frame_cycles * m.st.config.speed_multiplier
        b1 == emulate8080(m, budget, prog1)
        i1 == causeInt(b1.m, INT_MID_SCREEN)
        b2 == emulate8080(i1, budget, prog2)
        i2 == causeInt(b2.m, INT_END_SCREEN)
        st == [i2.st EXCEPT
                 !.frame_count = i2.st.frame_count + 1,
                 !.cycle_count = i2.st.cycle_count + (b1.cycles + b2.cycles)]
    IN  [m |-> [i2 EXCEPT !.st = st], ret |-> b1.cycles + b2.cycles]

\* si_step_frame decoding the video memory at the end of the frame.
si_step_frame_draw(m, prog1, prog2) ==
    LET b1 == emulate8080(m, half_frame_cycles, prog1)
        i1 == causeInt(b1.m, INT_MID_SCREEN)
        b2 == emulate8080(i1, half_frame_cycles, prog2)
        i2 == si_update_framebuffer(causeInt(b2.m, INT_END_SCREEN))
        st == [i2.st EXCEPT
                 !.frame_count = i2.st.frame_count + 1,
                 !.cycle_count = i2.st.cycle_count + (b1.cycles + b2.cycles)]
    IN  [m |-> [i2 EXCEPT !.st = st], ret |-> b1.cycles + b2.cycles]

si_step_frame(m, prog1, prog2) ==
    LET b1 == emulate8080(m, half_frame_cycles, prog1)
        i1 == causeInt(b1.m, INT_MID_SCREEN)
        b2 == emulate8080(i1, half_frame_cycles, prog2)
        i2 == causeInt(b2.m, INT_END_SCREEN)
        st == [i2.st EXCEPT
                 !.frame_count = i2.st.frame_count + 1,
                 !.cycle_count = i2.st.cycle_count + (b1.cycles + b2.cycles)]
    IN  [m |-> [i2 EXCEPT !.st = st], ret |-> b1.cycles + b2.cycles]

\* si_step_cycles counting a frame as well.
si_step_cycles_frame(m, cycles, prog) ==
    LET b == emulate8080(m, cycles, prog)
        st == [b.m.st EXCEPT !.cycle_count = b.m.st.cycle_count + b.cycles,
                             !.frame_count = b.m.st.frame_count + 1]
    IN  [m |-> [b.m EXCEPT !.st = st], ret |-> b.cycles]

si_step_cycles(m, cycles, prog) ==
    LET b == emulate8080(m, cycles, prog)
        st == [b.m.st EXCEPT !.cycle_count = b.m.st.cycle_count + b.cycles]
    IN  [m |-> [b.m EXCEPT !.st = st], ret |-> b.cycles]

(***************************************************************************)
(* Input latch: si_set_input, si_get_input                                 *)
(***************************************************************************)
\* si_set_input storing the byte as it comes.
si_set_input_verbatim(st, buttons) == [st EXCEPT !.input_state = buttons]

\* si_set_input without the idle bit.
si_set_input_noidle(st, buttons) ==
    [st EXCEPT !.input_state = BitAnd(buttons, INPUT_MASK)]

si_set_input(st, buttons) ==
    [st EXCEPT !.input_state = BitOr(BitAnd(buttons, INPUT_MASK), INPUT_IDLE)]

si_get_input(st) == st.input_state

(***************************************************************************)
(* Configuration: si_set_speed, si_set_uncapped, si_set_dip_switches       *)
(***************************************************************************)
\* multiplier is a float; the model takes whole values of it.
si_set_speed(st, multiplier) ==
    [st EXCEPT !.config.speed_multiplier = multiplier,
               !.config.uncapped = IF multiplier = 0 THEN TRUE ELSE @]

si_set_uncapped(st, uncapped) == [st EXCEPT !.config.uncapped = uncapped]

si_set_dip_switches(st, dip0, dip1, dip2) ==
    [st EXCEPT !.config.dip_switches = <<dip0, dip1, dip2>>]

(***************************************************************************)
(* Initialization and reset: si_init, si_init_with_config, si_reset        *)
(***************************************************************************)
DefaultConfig ==
    [headless |-> FALSE, speed_multiplier |-> 1, uncapped |-> FALSE,
     dip_switches |-> <<14, 8, 0>>]

HeadlessConfig ==
    [headless |-> TRUE, speed_multiplier |-> 0, uncapped |-> TRUE,
     dip_switches |-> <<14, 8, 0>>]

\* The four ROM images as read from the files, at the sampled addresses.
RomImage == [a \in Range(RomAddrSeq) |-> IF a = 0 THEN 0 ELSE 201]

si_init_with_config(config, rom) ==
    [cpu |-> reset8080(RESET_VECTOR),
     st |-> [screen_buf |-> [p \in Range(PixelIdxSeq) |-> PixelZero],
             shift_reg |-> 0,
             shift_offset |-> 0,
             input_state |-> INPUT_IDLE,
             frame_count |-> 0,
             cycle_count |-> 0,
             initialized |-> TRUE,
             config |-> config],
     mem |-> [a \in MemAddrs |->
                IF a = 0 THEN 195
                ELSE IF a \in DOMAIN rom THEN rom[a] ELSE 0],
     calls |-> <<>>]

RECURSIVE ClearRam(_, _)
ClearRam(m, addrs) ==
    IF addrs = <<>> THEN m
    ELSE ClearRam(writeByte(m, 0, Head(addrs)), Tail(addrs))

\* si_reset clearing the whole machine state record as well.
si_reset_cold(m) ==
    [m EXCEPT
        !.cpu = [reset8080(RESET_VECTOR) EXCEPT !.IE = 1],
        !.st = [m.st EXCEPT !.screen_buf = [p \in DOMAIN m.st.screen_buf |-> PixelZero],
                            !.shift_reg = 0,
                            !.shift_offset = 0,
                            !.input_state = INPUT_IDLE,
                            !.frame_count = 0,
                            !.cycle_count = 0,
                            !.config = DefaultConfig],
        !.mem = ClearRam(m.mem, AddrsIn(SI_RAM_START, SI_RAM_START + SI_RAM_SIZE))]

\* si_reset clearing the video memory only.
si_reset_video(m) ==
    [m EXCEPT
        !.cpu = [reset8080(RESET_VECTOR) EXCEPT !.IE = 1],
        !.st = [m.st EXCEPT !.shift_reg = 0,
                            !.shift_offset = 0,
                            !.input_state = INPUT_IDLE,
                            !.frame_count = 0,
                            !.cycle_count = 0],
        !.mem = ClearRam(m.mem, AddrsIn(SI_VRAM_START, SI_RAM_START + SI_RAM_SIZE))]

\* si_reset leaving the RAM as it is.
si_reset_warm(m) ==
    [m EXCEPT
        !.cpu = [reset8080(RESET_VECTOR) EXCEPT !.IE = 1],
        !.st = [m.st EXCEPT !.shift_reg = 0,
                            !.shift_offset = 0,
                            !.input_state = INPUT_IDLE,
                            !.frame_count = 0,
                            !.cycle_count = 0]]

si_reset(m) ==
    [m EXCEPT
        !.cpu = [reset8080(RESET_VECTOR) EXCEPT !.IE = 1],
        !.st = [m.st EXCEPT !.shift_reg = 0,
                            !.shift_offset = 0,
                            !.input_state = INPUT_IDLE,
                            !.frame_count = 0,
                            !.cycle_count = 0],
        !.mem = ClearRam(m.mem, AddrsIn(SI_RAM_START, SI_RAM_START + SI_RAM_SIZE))]

(***************************************************************************)
(* Observation extractor: si_get_score, si_get_lives, si_is_game_over      *)
(***************************************************************************)
\* si_get_score with the two bytes taken the other way round.
si_get_score_swapped(m) ==
    LET bcd_lsb == readByte(m.mem, 8441)
        bcd_msb == readByte(m.mem, 8440)
    IN  Shr(bcd_msb, 4) * 1000 + BitAnd(bcd_msb, 15) * 100
        + Shr(bcd_lsb, 4) * 10 + BitAnd(bcd_lsb, 15)

si_get_score(m) ==
    LET bcd_lsb == readByte(m.mem, 8440)
        bcd_msb == readByte(m.mem, 8441)
    IN  Shr(bcd_msb, 4) * 1000 + BitAnd(bcd_msb, 15) * 100
        + Shr(bcd_lsb, 4) * 10 + BitAnd(bcd_lsb, 15)

\* si_get_lives reporting 0 from a total of 6 on.
si_get_lives_strict(m) ==
    LET ships_remaining == readByte(m.mem, 8703)
        player_alive == readByte(m.mem, 8423)
        total_lives == ships_remaining + (IF player_alive # 0 THEN 1 ELSE 0)
    IN  IF total_lives >= 6 THEN 0 ELSE total_lives

si_get_lives(m) ==
    LET ships_remaining == readByte(m.mem, 8703)
        player_alive == readByte(m.mem, 8423)
        total_lives == ships_remaining + (IF player_alive # 0 THEN 1 ELSE 0)
    IN  IF total_lives > 6 THEN 0 ELSE total_lives

\* si_is_game_over not looking at the halt flag.
si_is_game_over_ram(m) ==
    LET ships_remaining == readByte(m.mem, 8703)
        player_alive == readByte(m.mem, 8423)
    IN  player_alive = 0 /\ ships_remaining = 0

\* si_is_game_over not looking at the reserve ships.
si_is_game_over_dead(m) ==
    LET player_alive == readByte(m.mem, 8423)
    IN  m.cpu.halt \/ player_alive = 0

si_is_game_over(m) ==
    LET ships_remaining == readByte(m.mem, 8703)
        player_alive == readByte(m.mem, 8423)
    IN  m.cpu.halt \/ (player_alive = 0 /\ ships_remaining = 0)

(***************************************************************************)
(* State persistence: si_save_state, si_load_state.  A file is a sequence  *)
(* of numbers: the four magic characters, the version, the fields of the   *)
(* CPU record, the fields of the machine state record in their declared    *)
(* order, and the RAM bytes in ascending address order.                    *)
(***************************************************************************)
Magic == <<83, 73, 56, 48>>

B2N(b) == IF b THEN 1 ELSE 0

CpuFields(c) == <<c.a, c.sp, c.pc, c.IE, B2N(c.halt)>>

CpuOfFields(f) ==
    [a |-> f[1], sp |-> f[2], pc |-> f[3], IE |-> f[4], halt |-> f[5] # 0]

NPix == Len(PixelIdxSeq)

StFields(st) ==
    [k \in 1..NPix |-> st.screen_buf[PixelIdxSeq[k]]] \o
    <<st.shift_reg, st.shift_offset, st.input_state, st.frame_count,
      st.cycle_count, B2N(st.initialized), B2N(st.config.headless),
      st.config.speed_multiplier, B2N(st.config.uncapped),
      st.config.dip_switches[1], st.config.dip_switches[2],
      st.config.dip_switches[3]>>

StOfFields(f) ==
    [screen_buf |-> [p \in Range(PixelIdxSeq) |->
                        f[CHOOSE k \in 1..NPix : PixelIdxSeq[k] = p]],
     shift_reg |-> f[NPix + 1],
     shift_offset |-> f[NPix + 2],
     input_state |-> f[NPix + 3],
     frame_count |-> f[NPix + 4],
     cycle_count |-> f[NPix + 5],
     initialized |-> f[NPix + 6] # 0,
     config |-> [headless |-> f[NPix + 7] # 0,
                 speed_multiplier |-> f[NPix + 8],
                 uncapped |-> f[NPix + 9] # 0,
                 dip_switches |-> <<f[NPix + 10], f[NPix + 11], f[NPix + 12]>>]]

RamBytes(m, addrs) == [k \in 1..Len(addrs) |-> readByte(m, addrs[k])]

NoFile == [exists |-> FALSE, data |-> <<>>]

\* si_save_state reading the RAM bytes at addr - SI_RAM_START.
si_save_state_rom(m, old, openok) ==
    IF ~openok THEN [file |-> old, ret |-> 0 - 1]
    ELSE LET addrs == AddrsIn(SI_RAM_START, SI_RAM_START + SI_RAM_SIZE)
         IN  [file |-> [exists |-> TRUE,
                        data |-> Magic \o <<SAVE_VERSION>> \o CpuFields(m.cpu)
                                 \o StFields(m.st)
                                 \o [k \in 1..Len(addrs) |->
                                       readByte(m.mem, addrs[k] - SI_RAM_START)]],
              ret |-> 0]

\* fopen(filename, "wb") either fails or truncates; the fwrite results are
\* not looked at.
si_save_state(m, old, openok) ==
    IF ~openok THEN [file |-> old, ret |-> 0 - 1]
    ELSE [file |-> [exists |-> TRUE,
                    data |-> Magic \o <<SAVE_VERSION>> \o CpuFields(m.cpu)
                             \o StFields(m.st)
                             \o RamBytes(m.mem, AddrsIn(SI_RAM_START,
                                                        SI_RAM_START + SI_RAM_SIZE))],
          ret |-> 0]

\* fread(&record, sizeof record, 1, fp) on a short file: the fields that are
\* there are stored into the record, the others are left, and 0 is returned.
Take(data, n) == [k \in 1..Min(n, Len(data)) |-> data[k]]

Drop(data, n) == [k \in 1..(Len(data) - Min(n, Len(data))) |-> data[k + n]]

Overlay(old, data) == Take(data, Len(old)) \o Drop(old, Len(data))

RECURSIVE LoadRam(_, _, _)
LoadRam(m, addrs, data) ==
    IF addrs = <<>> THEN [mem |-> m, ret |-> 0]
    ELSE IF data = <<>> THEN [mem |-> m, ret |-> 0 - 1]
    ELSE LoadRam(writeByte(m, Head(data), Head(addrs)), Tail(addrs), Tail(data))

\* si_load_state reading the CPU record before it looks at the version.
si_load_state_late(m, file) ==
    LET d == file.data
        NCpu == Len(CpuFields(m.cpu))
        NSt == Len(StFields(m.st))
        d1 == Drop(d, 5)
        cpu == CpuOfFields(Overlay(CpuFields(m.cpu), d1))
        d2 == Drop(d1, NCpu)
        st == StOfFields(Overlay(StFields(m.st), d2))
        d3 == Drop(d2, NSt)
        ram == LoadRam(m.mem, AddrsIn(SI_RAM_START, SI_RAM_START + SI_RAM_SIZE), d3)
    IN  IF ~file.exists THEN [m |-> m, ret |-> 0 - 1]
        ELSE IF Len(d) < 4 \/ Take(d, 4) # Magic THEN [m |-> m, ret |-> 0 - 1]
        ELSE IF Len(d1) < NCpu \/ d[5] # SAVE_VERSION
             THEN [m |-> [m EXCEPT !.cpu = cpu], ret |-> 0 - 1]
        ELSE IF Len(d2) < NSt
             THEN [m |-> [m EXCEPT !.cpu = cpu, !.st = st], ret |-> 0 - 1]
        ELSE [m |-> [m EXCEPT !.cpu = cpu, !.st = st, !.mem = ram.mem],
              ret |-> ram.ret]

si_load_state(m, file) ==
    LET d == file.data
        NCpu == Len(CpuFields(m.cpu))
        NSt == Len(StFields(m.st))
        d1 == Drop(d, 5)
        cpu == CpuOfFields(Overlay(CpuFields(m.cpu), d1))
        d2 == Drop(d1, NCpu)
        st == StOfFields(Overlay(StFields(m.st), d2))
        d3 == Drop(d2, NSt)
        ram == LoadRam(m.mem, AddrsIn(SI_RAM_START, SI_RAM_START + SI_RAM_SIZE), d3)
    IN  IF ~file.exists THEN [m |-> m, ret |-> 0 - 1]
        ELSE IF Len(d) < 4 \/ Take(d, 4) # Magic THEN [m |-> m, ret |-> 0 - 1]
        ELSE IF Len(d) < 5 \/ d[5] # SAVE_VERSION THEN [m |-> m, ret |-> 0 - 1]
        ELSE IF Len(d1) < NCpu THEN [m |-> [m EXCEPT !.cpu = cpu], ret |-> 0 - 1]
        ELSE IF Len(d2) < NSt
             THEN [m |-> [m EXCEPT !.cpu = cpu, !.st = st], ret |-> 0 - 1]
        ELSE [m |-> [m EXCEPT !.cpu = cpu, !.st = st, !.mem = ram.mem],
              ret |-> ram.ret]

(***************************************************************************)
(* The emulator as a state machine.  e8080, si_state and mem are the live  *)
(* state; disk holds the save files; snap remembers, for each save file,   *)
(* the live state at the time it was written; log holds the record of the  *)
(* last call of the interface: its name, arguments, return value, the      *)
(* calls it made into the CPU engine, and for a load the file as read.     *)
(***************************************************************************)
Files == {1}

Live == [cpu |-> e8080, st |-> si_state, mem |-> mem, calls |-> <<>>]

Commit(m) == e8080' = m.cpu /\ si_state' = m.st /\ mem' = m.mem

Entry(name, args, ret, calls, data) ==
    [name |-> name, args |-> args, ret |-> ret, calls |-> calls, data |-> data]

Progs ==
    { <<>>,
      <<Ins("HLT", 0)>>,
      <<Ins("EI", 0)>>,
      <<Ins("MVI", 171), Ins("OUT", 4)>>,
      <<Ins("IN", 3), Ins("STA", 8423)>> }

StepArgs == {20000}

InputBytes == {255}

InitWith(configs) ==
    /\ \E config \in configs :
         LET m == si_init_with_config(config, RomImage)
         IN  e8080 = m.cpu /\ si_state = m.st /\ mem = m.mem
    /\ disk = [f \in Files |-> NoFile]
    /\ snap = [f \in Files |-> <<>>]
    /\ log = <<Entry("si_init_with_config", <<>>, 0, <<>>, <<>>)>>

\* Started by si_init.
Init == InitWith({DefaultConfig})

\* Started by si_init or by si_api_init_headless.
InitAny == InitWith({DefaultConfig, HeadlessConfig})

StepFrame(prog1, prog2) ==
    /\ si_state.frame_count < MaxFrames
    /\ LET r == si_step_frame(Live, prog1, prog2)
       IN  /\ Commit(r.m)
           /\ log' = <<Entry("si_step_frame", <<>>, r.ret, r.m.calls, <<>>)>>
    /\ UNCHANGED <<disk, snap>>

StepCycles(cycles, prog) ==
    /\ si_state.cycle_count < MaxBursts * half_frame_cycles
    /\ LET r == si_step_cycles(Live, cycles, prog)
       IN  /\ Commit(r.m)
           /\ log' = <<Entry("si_step_cycles", <<cycles>>, r.ret, r.m.calls, <<>>)>>
    /\ UNCHANGED <<disk, snap>>

SetInput(buttons) ==
    /\ si_state' = si_set_input(si_state, buttons)
    /\ log' = <<Entry("si_set_input", <<buttons>>, 0, <<>>, <<>>)>>
    /\ UNCHANGED <<e8080, mem, disk, snap>>

GetInput ==
    /\ log' = <<Entry("si_get_input", <<>>, si_get_input(si_state), <<>>, <<>>)>>
    /\ UNCHANGED <<e8080, si_state, mem, disk, snap>>

PortIn(port) ==
    /\ log' = <<Entry("si_port_in", <<port>>, si_port_in(si_state, port), <<>>, <<>>)>>
    /\ UNCHANGED <<e8080, si_state, mem, disk, snap>>

PortOut(port, value) ==
    /\ si_state' = si_port_out(si_state, port, value)
    /\ log' = <<Entry("si_port_out", <<port, value>>, 0, <<>>, <<>>)>>
    /\ UNCHANGED <<e8080, mem, disk, snap>>

SetSpeed(multiplier) ==
    /\ si_state' = si_set_speed(si_state, multiplier)
    /\ log' = <<Entry("si_set_speed", <<multiplier>>, 0, <<>>, <<>>)>>
    /\ UNCHANGED <<e8080, mem, disk, snap>>

SetUncapped(uncapped) ==
    /\ si_state' = si_set_uncapped(si_state, uncapped)
    /\ log' = <<Entry("si_set_uncapped", <<B2N(uncapped)>>, 0, <<>>, <<>>)>>
    /\ UNCHANGED <<e8080, mem, disk, snap>>

SetDipSwitches(dip0, dip1, dip2) ==
    /\ si_state' = si_set_dip_switches(si_state, dip0, dip1, dip2)
    /\ log' = <<Entry("si_set_dip_switches", <<dip0, dip1, dip2>>, 0, <<>>, <<>>)>>
    /\ UNCHANGED <<e8080, mem, disk, snap>>

\* Nothing of the machine state that si_reset sets is at its default.
OffDefaults(m) ==
    /\ m.st.shift_reg # 0
    /\ m.st.shift_offset # 0
    /\ m.st.input_state # INPUT_IDLE
    /\ m.st.frame_count # 0
    /\ m.st.cycle_count # 0
    /\ \E a \in Range(RamAddrSeq) : m.mem[a] # 0

\* A game is on and the CPU has halted: ships in reserve, the player alive,
\* a score on the board.
InPlay(m) ==
    /\ m.cpu.halt
    /\ m.mem[8703] # 0
    /\ m.mem[8423] # 0
    /\ m.mem[8440] # 0
    /\ m.mem[8441] # 0

\* The record of a reset notes whether it found the machine off its
\* defaults, and whether it found a game on.
Reset ==
    /\ Commit(si_reset(Live))
    /\ log' = <<Entry("si_reset", <<>>, 0, <<>>,
                      <<B2N(OffDefaults(Live)), B2N(InPlay(Live))>>)>>
    /\ UNCHANGED <<disk, snap>>

GetScore ==
    /\ log' = <<Entry("si_get_score", <<>>, si_get_score(Live), <<>>, <<>>)>>
    /\ UNCHANGED <<e8080, si_state, mem, disk, snap>>

GetLives ==
    /\ log' = <<Entry("si_get_lives", <<>>, si_get_lives(Live), <<>>, <<>>)>>
    /\ UNCHANGED <<e8080, si_state, mem, disk, snap>>

IsGameOver ==
    /\ log' = <<Entry("si_is_game_over", <<>>, si_is_game_over(Live), <<>>, <<>>)>>
    /\ UNCHANGED <<e8080, si_state, mem, disk, snap>>

UpdateFramebuffer ==
    /\ Commit(si_update_framebuffer(Live))
    /\ log' = <<Entry("si_update_framebuffer", <<>>, 0, <<>>, <<>>)>>
    /\ UNCHANGED <<disk, snap>>

SaveState(f, openok) ==
    /\ LET r == si_save_state(Live, disk[f], openok)
       IN  /\ disk' = [disk EXCEPT ![f] = r.file]
           /\ snap' = IF r.ret = 0
                      THEN [snap EXCEPT ![f] = <<[cpu |-> e8080, st |-> si_state,
                                                  mem |-> mem]>>]
                      ELSE snap
           /\ log' = <<Entry("si_save_state", <<f>>, r.ret, <<>>, <<>>)>>
    /\ UNCHANGED <<e8080, si_state, mem>>

\* The file as si_load_state finds it: as written, or cut short to len
\* numbers, or with another magic tag or version.
AsFound(file, dmg) ==
    CASE dmg.kind = "none" \/ ~file.exists -> file
      [] dmg.kind = "missing" -> NoFile
      [] dmg.kind = "cut" -> [file EXCEPT !.data = Take(file.data, dmg.len)]
      [] dmg.kind = "magic" ->
            [file EXCEPT !.data = <<83, 73, 56, 49>> \o Drop(file.data, 4)]
      [] dmg.kind = "version" ->
            [file EXCEPT !.data = Take(file.data, 4) \o <<2>> \o Drop(file.data, 5)]

Dmg(kind, len) == [kind |-> kind, len |-> len]

BlobLen == 5 + 5 + (NPix + 12) + Len(RamAddrSeq)

\* Files that si_load_state turns down on their first five numbers.
HeaderDamages ==
    {Dmg("none", 0), Dmg("missing", 0), Dmg("magic", 0), Dmg("version", 0),
     Dmg("cut", 3), Dmg("cut", 4)}

\* Files with a good magic tag and version that end early: before the CPU
\* record, inside it, inside the machine state record, inside the RAM bytes.
CutDamages ==
    {Dmg("none", 0), Dmg("cut", 5), Dmg("cut", 7), Dmg("cut", 10 + NPix + 3),
     Dmg("cut", BlobLen - 2)}

LoadState(f, dmg) ==
    /\ LET file == AsFound(disk[f], dmg)
           r == si_load_state(Live, file)
       IN  /\ Commit(r.m)
           /\ log' = <<Entry("si_load_state", <<f, B2N(file.exists)>>, r.ret, <<>>, file.data)>>
    /\ UNCHANGED <<disk, snap>>

Next ==
    \/ \E p1, p2 \in Progs : StepFrame(p1, p2)
    \/ \E n \in StepArgs, p \in Progs : StepCycles(n, p)
    \/ \E b \in InputBytes : SetInput(b)
    \/ Reset

Spec == Init /\ [][Next]_vars

(***************************************************************************)
(* Save and load: the machine with its save files.                         *)
(***************************************************************************)
SaveProgs ==
    { <<>>,
      <<Ins("EI", 0), Ins("MVI", 171), Ins("OUT", 4), Ins("OUT", 2),
        Ins("IN", 3), Ins("STA", 8423)>> }

NextSave ==
    \/ \E p \in SaveProgs : StepFrame(p, p)
    \/ \E b \in InputBytes : SetInput(b)
    \/ SetDipSwitches(1, 2, 3)
    \/ Reset
    \/ \E f \in Files, ok \in BOOLEAN : SaveState(f, ok)
    \/ \E f \in Files, d \in HeaderDamages : LoadState(f, d)

SpecSave == Init /\ [][NextSave]_vars

(***************************************************************************)
(* Loading save files that end early.                                      *)
(***************************************************************************)
NextCut ==
    \/ \E p \in SaveProgs : StepFrame(p, p)
    \/ \E f \in Files : SaveState(f, TRUE)
    \/ \E f \in Files, d \in CutDamages : LoadState(f, d)

SpecCut == Init /\ [][NextCut]_vars

(***************************************************************************)
(* The port bridge on its own: the port handlers and the input latch       *)
(* called directly, with a wider choice of ports and bytes.                *)
(***************************************************************************)
PortBytes == {0, 11, 170, 255}

LatchBytes == {0, 144, 165, 255}

NextPorts ==
    \/ \E b \in LatchBytes : SetInput(b)
    \/ GetInput
    \/ \E p \in 0..7 : PortIn(p)
    \/ \E p \in 0..7, v \in PortBytes : PortOut(p, v)
    \/ \E d \in {1, 170} : SetDipSwitches(d, 2, 255 - d)

SpecPorts == InitAny /\ [][NextPorts]_vars

(***************************************************************************)
(* The shift register round trip: after any port writes, and with the high *)
(* byte of the shift register 0, an offset is written to port 2, a byte to *)
(* port 4, and port 3 is read.  Here log keeps the calls of the round trip. *)
(***************************************************************************)
Offsets == 0..7

RoundTripOffset(k) ==
    /\ Len(log) = 1
    /\ Shr(si_state.shift_reg, 8) = 0
    /\ si_state' = si_port_out(si_state, 2, k)
    /\ log' = Append(log, Entry("si_port_out", <<2, k>>, 0, <<>>, <<>>))
    /\ UNCHANGED <<e8080, mem, disk, snap>>

RoundTripData(v) ==
    /\ Len(log) = 2
    /\ si_state' = si_port_out(si_state, 4, v)
    /\ log' = Append(log, Entry("si_port_out", <<4, v>>, 0, <<>>, <<>>))
    /\ UNCHANGED <<e8080, mem, disk, snap>>

RoundTripRead ==
    /\ Len(log) = 3
    /\ log' = Append(log, Entry("si_port_in", <<3>>, si_port_in(si_state, 3), <<>>, <<>>))
    /\ UNCHANGED <<e8080, si_state, mem, disk, snap>>

NextShift ==
    \/ Len(log) = 1 /\ \E p \in {2, 4}, v \in PortBytes : PortOut(p, v)
    \/ \E k \in Offsets : RoundTripOffset(k)
    \/ \E v \in PortBytes : RoundTripData(v)
    \/ RoundTripRead

SpecShift == InitAny /\ [][NextShift]_vars

(***************************************************************************)
(* Writes aimed at the ROM: programs that store to ROM addresses and that  *)
(* put the stack there, so that an interrupt pushes into the ROM, together *)
(* with resets, saves and loads.                                           *)
(***************************************************************************)
RomProgs ==
    { <<Ins("MVI", 171), Ins("STA", 0)>>,
      <<Ins("MVI", 85), Ins("STA", 8191)>>,
      <<Ins("EI", 0), Ins("LXISP", 1), Ins("MVI", 171), Ins("STA", 8423)>> }

NextRom ==
    \/ \E p \in RomProgs : StepFrame(p, p)
    \/ \E n \in StepArgs, p \in RomProgs : StepCycles(n, p)
    \/ Reset
    \/ \E f \in Files : SaveState(f, TRUE)
    \/ \E f \in Files, d \in {Dmg("none", 0), Dmg("cut", BlobLen - 2)} : LoadState(f, d)

SpecRom == Init /\ [][NextRom]_vars

(***************************************************************************)
(* The display: programs that draw into the video memory, the decoder, and *)
(* the calls that could touch the pixel buffer.                            *)
(***************************************************************************)
DrawFirst == <<Ins("MVI", 29), Ins("STA", 9216)>>

DrawLast == <<Ins("MVI", 255), Ins("STA", 16383)>>

VideoProgs == {DrawFirst, DrawLast}

NextVideo ==
    \/ StepFrame(DrawFirst, DrawLast)
    \/ \E n \in StepArgs, p \in VideoProgs : StepCycles(n, p)
    \/ UpdateFramebuffer
    \/ Reset
    \/ \E f \in Files : SaveState(f, TRUE)
    \/ \E f \in Files : LoadState(f, Dmg("none", 0))

SpecVideo == Init /\ [][NextVideo]_vars

(***************************************************************************)
(* The game as the observation extractor sees it: programs that store the  *)
(* reserve ship count, the alive flag and the score bytes, and that may    *)
(* halt the CPU, followed by the queries.                                  *)
(***************************************************************************)
ReserveBytes == {0, 2, 5, 6, 7, 255}

AliveBytes == {0, 1, 255}

ScoreBytes == {0, 1, 35, 153, 175}

StatusProg(ships, alive, halts) ==
    <<Ins("MVI", ships), Ins("STA", 8703), Ins("MVI", alive), Ins("STA", 8423)>>
    \o (IF halts THEN <<Ins("HLT", 0)>> ELSE <<>>)

ScoreProg(lsb, msb) ==
    <<Ins("MVI", lsb), Ins("STA", 8440), Ins("MVI", msb), Ins("STA", 8441)>>

GameProgs ==
    {StatusProg(r, a, h) : r \in ReserveBytes, a \in AliveBytes, h \in BOOLEAN}
    \cup {ScoreProg(l, h) : l \in ScoreBytes, h \in ScoreBytes}

NextGame ==
    \/ \E n \in StepArgs, p \in GameProgs : StepCycles(n, p)
    \/ GetScore
    \/ GetLives
    \/ IsGameOver
    \/ Reset

SpecGame == Init /\ [][NextGame]_vars

(***************************************************************************)
(* Pacing: the machine driven through the stepping, input, port and reset  *)
(* calls while the speed multiplier and the uncapped flag are set, started *)
(* with or without the headless flag.                                      *)
(***************************************************************************)
Speeds == {0, 1, 2}

PacingProg == <<Ins("EI", 0), Ins("MVI", 171), Ins("OUT", 4), Ins("IN", 3), Ins("STA", 8423)>>

NextPacing ==
    \/ StepFrame(PacingProg, PacingProg)
    \/ \E n \in StepArgs : StepCycles(n, PacingProg)
    \/ \E b \in InputBytes : SetInput(b)
    \/ PortIn(3)
    \/ PortOut(2, 171)
    \/ Reset
    \/ \E x \in Speeds : SetSpeed(x)
    \/ \E u \in BOOLEAN : SetUncapped(u)

SpecPacing == InitAny /\ [][NextPacing]_vars

(***************************************************************************)
(* The shift register as a two-byte window: after any port writes, frames  *)
(* and resets, an offset is written to port 2, two bytes are written to    *)
(* port 4 one after the other, and port 3 is read.  Here log keeps the     *)
(* calls of this sequence.                                                 *)
(***************************************************************************)
WindowProg == <<Ins("MVI", 93), Ins("OUT", 2), Ins("OUT", 4)>>

WindowBytes == {0, 1, 129, 170, 255}

\* The bytes written to port 2: every offset, and bytes with higher bits set.
WindowOffsets == 0..7 \cup {13, 255}

WindowOffset(v) ==
    /\ Len(log) = 1
    /\ si_state' = si_port_out(si_state, 2, v)
    /\ log' = Append(log, Entry("si_port_out", <<2, v>>, 0, <<>>, <<>>))
    /\ UNCHANGED <<e8080, mem, disk, snap>>

WindowWrite(n, v) ==
    /\ Len(log) = n
    /\ si_state' = si_port_out(si_state, 4, v)
    /\ log' = Append(log, Entry("si_port_out", <<4, v>>, 0, <<>>, <<>>))
    /\ UNCHANGED <<e8080, mem, disk, snap>>

WindowRead ==
    /\ Len(log) = 4
    /\ log' = Append(log, Entry("si_port_in", <<3>>, si_port_in(si_state, 3), <<>>, <<>>))
    /\ UNCHANGED <<e8080, si_state, mem, disk, snap>>

NextWindow ==
    \/ Len(log) = 1 /\ \E p \in {2, 4}, v \in PortBytes : PortOut(p, v)
    \/ Len(log) = 1 /\ StepFrame(WindowProg, <<>>)
    \/ Len(log) = 1 /\ Reset
    \/ \E v \in WindowOffsets : WindowOffset(v)
    \/ \E v \in WindowBytes : WindowWrite(2, v)
    \/ \E v \in WindowBytes : WindowWrite(3, v)
    \/ WindowRead

SpecWindow == Init /\ [][NextWindow]_vars

(***************************************************************************)
(* The input latch over a run: latch writes, port reads and writes, frames *)
(* whose program reads port 1, resets, and saves and loads.                *)
(***************************************************************************)
LatchProg == <<Ins("IN", 1), Ins("STA", 8423), Ins("OUT", 1)>>

NextLatch ==
    \/ \E b \in {0, 165, 255} : SetInput(b)
    \/ PortIn(1)
    \/ PortOut(1, 255)
    \/ StepFrame(LatchProg, LatchProg)
    \/ Reset
    \/ \E f \in Files : SaveState(f, TRUE)
    \/ \E f \in Files : LoadState(f, Dmg("none", 0))

SpecLatch == Init /\ [][NextLatch]_vars

(***************************************************************************)
(* Configuration across a reset: the DIP switches and the pacing fields    *)
(* are set, a picture is drawn and decoded, the machine is reset, and the  *)
(* DIP ports are read.                                                     *)
(***************************************************************************)
NextConfig ==
    \/ \E d \in {1, 170} : SetDipSwitches(d, 2, 255 - d)
    \/ \E x \in {0, 2} : SetSpeed(x)
    \/ SetUncapped(FALSE)
    \/ \E n \in StepArgs : StepCycles(n, DrawFirst)
    \/ UpdateFramebuffer
    \/ Reset
    \/ \E p \in {0, 2} : PortIn(p)

SpecConfig == InitAny /\ [][NextConfig]_vars

(***************************************************************************)
(* Claims                                                                  *)
(***************************************************************************)
Op == log[Len(log)]

OpNext == log'[Len(log')]

LiveUnchanged == UNCHANGED <<e8080, si_state, mem>>

GoodHeader(data) == Len(data) >= 5 /\ Take(data, 4) = Magic /\ data[5] = SAVE_VERSION

RamOf(m) == [a \in Range(RamAddrSeq) |-> m[a]]

\* C1: si_load_state of a file that ends early after a good magic tag and
\* version returns -1 and leaves the CPU record, the machine state and the
\* memory as they were.
C1_TruncatedLoadLeavesState ==
    [][(/\ OpNext.name = "si_load_state"
        /\ OpNext.args[2] = 1
        /\ GoodHeader(OpNext.data)
        /\ Len(OpNext.data) < BlobLen)
       => (OpNext.ret = 0 - 1 /\ LiveUnchanged)]_vars

\* C2: si_load_state of a file that cannot be opened, or whose magic tag is
\* not "SI80", or whose version is not 1, returns -1 and changes nothing of
\* the CPU record, the machine state and the memory.
C2_BadHeaderLoadChangesNothing ==
    [][(/\ OpNext.name = "si_load_state"
        /\ (OpNext.args[2] = 0 \/ ~GoodHeader(OpNext.data)))
       => (OpNext.ret = 0 - 1 /\ LiveUnchanged)]_vars

\* A load turned down for its magic tag while a file written in another
\* state is on the disk.
C2_Witness ==
    /\ Op.name = "si_load_state"
    /\ Op.args[2] = 1
    /\ Len(Op.data) >= 5
    /\ Take(Op.data, 4) # Magic
    /\ Op.ret = 0 - 1
    /\ snap[Op.args[1]] # <<>>
    /\ snap[Op.args[1]][1].cpu # e8080
    /\ snap[Op.args[1]][1].st # si_state
    /\ snap[Op.args[1]][1].mem # mem

\* C3: after a successful si_load_state of a file written by si_save_state,
\* the CPU registers, the configuration, the shift register and offset, the
\* input latch, the RAM, the frame counter and the cycle counter are those
\* of the state in which the file was written.
C3_SaveLoadRoundTrip ==
    (Op.name = "si_load_state" /\ Op.ret = 0) =>
        /\ snap[Op.args[1]] # <<>>
        /\ LET s == snap[Op.args[1]][1]
           IN  /\ e8080 = s.cpu
               /\ si_state.config = s.st.config
               /\ si_state.shift_reg = s.st.shift_reg
               /\ si_state.shift_offset = s.st.shift_offset
               /\ si_state.input_state = s.st.input_state
               /\ si_state.frame_count = s.st.frame_count
               /\ si_state.cycle_count = s.st.cycle_count
               /\ RamOf(mem) = RamOf(s.mem)

\* A successful load that brought back a state two frames into a run, with
\* a pressed button and a non-zero RAM byte.
C3_Witness ==
    /\ Op.name = "si_load_state"
    /\ Op.ret = 0
    /\ si_state.frame_count = 2
    /\ si_state.input_state = 127
    /\ si_state.shift_reg # 0
    /\ e8080.pc # RESET_VECTOR
    /\ \E a \in Range(RamAddrSeq) : mem[a] # 0

\* The values returned by the bursts of the last call, in order.
BurstCycles(op) ==
    LET b == SelectSeq(op.calls, LAMBDA c : c.fn = "emulate8080")
    IN  [k \in 1..Len(b) |-> b[k].ret]

\* The calls of the last call into the CPU engine (bursts and interrupts),
\* without the port handler calls the program made.
EngineCalls(op) ==
    LET e == SelectSeq(op.calls, LAMBDA c : c.fn \in {"emulate8080", "causeInt"})
    IN  [k \in 1..Len(e) |-> <<e[k].fn, e[k].arg>>]

\* C4: si_step_frame adds exactly 1 to the frame counter, adds the cycles
\* of its two bursts (and no interrupt-acknowledge cycles) to the cycle
\* counter, and returns that sum.
C4_StepFrameCounters ==
    [][OpNext.name = "si_step_frame" =>
        LET c == BurstCycles(OpNext)
        IN  /\ Len(c) = 2
            /\ si_state'.frame_count = si_state.frame_count + 1
            /\ si_state'.cycle_count = si_state.cycle_count + c[1] + c[2]
            /\ OpNext.ret = c[1] + c[2]]_vars

\* A second frame in which both interrupts were taken.
C4_Witness ==
    /\ Op.name = "si_step_frame"
    /\ si_state.frame_count = 2
    /\ \A k \in 1..Len(Op.calls) :
          Op.calls[k].fn = "causeInt" => Op.calls[k].ret = INT_ACK_CYCLES
    /\ Len(SelectSeq(Op.calls, LAMBDA c : c.fn = "causeInt")) = 2
    /\ Op.ret > 2 * half_frame_cycles
    /\ si_state.cycle_count > Op.ret

\* C5: every si_step_frame runs a burst of 17066 cycles, raises interrupt
\* 0x08, runs a second burst of 17066 cycles and raises interrupt 0x10, in
\* this order and each once, whatever the CPU state and the program.
C5_StepFrameOrder ==
    Op.name = "si_step_frame" =>
        EngineCalls(Op) = << <<"emulate8080", 17066>>, <<"causeInt", 8>>,
                             <<"emulate8080", 17066>>, <<"causeInt", 16>> >>

\* A frame stepped with the CPU halted and its interrupts disabled: both
\* bursts idle, both interrupts are dropped.
C5_Witness ==
    /\ Op.name = "si_step_frame"
    /\ e8080.halt
    /\ e8080.IE = 0
    /\ Op.ret = 2 * half_frame_cycles
    /\ EngineCalls(Op) = << <<"emulate8080", 17066>>, <<"causeInt", 8>>,
                            <<"emulate8080", 17066>>, <<"causeInt", 16>> >>

\* C6: si_step_cycles raises no interrupt, leaves the frame counter alone
\* and adds exactly the value it returns to the cycle counter.
C6_StepCyclesEffect ==
    [][OpNext.name = "si_step_cycles" =>
        /\ EngineCalls(OpNext) = << <<"emulate8080", OpNext.args[1]>> >>
        /\ si_state'.frame_count = si_state.frame_count
        /\ si_state'.cycle_count = si_state.cycle_count + OpNext.ret
        /\ OpNext.ret = BurstCycles(OpNext)[1]]_vars

\* Cycles stepped after a frame, with interrupts enabled (an interrupt
\* would have been taken, had one been raised).
C6_Witness ==
    /\ Op.name = "si_step_cycles"
    /\ Op.ret > 0
    /\ e8080.IE = 1
    /\ ~e8080.halt
    /\ si_state.frame_count = 1
    /\ si_state.cycle_count > Op.ret

\* C7: si_port_in returns DIP byte 0 for port 0, the input latch for port
\* 1, DIP byte 2 for port 2, the top 8 bits of the 16-bit shift register
\* shifted left by the offset for port 3, and 0 for any other port; it
\* changes no state.
C7_Expected(st, port) ==
    IF port = 0 THEN st.config.dip_switches[1]
    ELSE IF port = 1 THEN st.input_state
    ELSE IF port = 2 THEN st.config.dip_switches[3]
    ELSE IF port = 3 THEN ((st.shift_reg * Pow2(st.shift_offset)) % 65536) \div 256
    ELSE 0

C7_PortIn ==
    [][OpNext.name = "si_port_in" =>
        /\ OpNext.ret = C7_Expected(si_state, OpNext.args[1])
        /\ UNCHANGED <<e8080, si_state, mem, disk>>]_vars

\* A read of port 3 with a non-zero offset that brings bits of both bytes
\* of the shift register into the result.
C7_Witness ==
    /\ Op.name = "si_port_in"
    /\ Op.args = <<3>>
    /\ si_state.shift_offset = 3
    /\ si_state.shift_reg = 65450
    /\ Op.ret = 253

\* C8 as stated: with the high byte of the shift register 0, writing k in
\* 0..7 to port 2, then v to port 4, then reading port 3 returns
\* ((v << k) >> 8) cut to 8 bits; with k = 0 and v = 0xAA it returns 0x00.
C8_RoundTripAsStated ==
    (Len(log) = 4) =>
        LET k == log[2].args[2]
            v == log[3].args[2]
        IN  log[4].ret = ((v * Pow2(k)) \div 256) % 256

\* C8 amended: the read returns (v << k) cut to 8 bits; with k = 0 and
\* v = 0xAA it returns 0xAA.
C8_RoundTrip ==
    (Len(log) = 4) =>
        LET k == log[2].args[2]
            v == log[3].args[2]
        IN  /\ log[2].name = "si_port_out" /\ log[2].args[1] = 2
            /\ log[3].name = "si_port_out" /\ log[3].args[1] = 4
            /\ log[4].name = "si_port_in" /\ log[4].args = <<3>>
            /\ log[4].ret = (v * Pow2(k)) % 256

\* The round trip with offset 0 and byte 0xAA has read 0xAA.
C8_Witness ==
    /\ Len(log) = 4
    /\ log[2].args = <<2, 0>>
    /\ log[3].args = <<4, 170>>
    /\ log[4].name = "si_port_in"
    /\ log[4].ret = 170

\* C9: a write of v to port 2 sets the shift offset to v mod 8 and nothing
\* else; a write of v to port 4 sets the shift register to
\* (shift_reg >> 8) | (v << 8) and nothing else; a write to any other port
\* changes nothing.
C9_PortOut ==
    [][OpNext.name = "si_port_out" =>
        LET port == OpNext.args[1]
            v == OpNext.args[2]
        IN  /\ UNCHANGED <<e8080, mem, disk>>
            /\ port = 2 => si_state' = [si_state EXCEPT !.shift_offset = v % 8]
            /\ port = 4 => si_state' = [si_state EXCEPT !.shift_reg =
                                          (si_state.shift_reg \div 256) + 256 * v]
            /\ port \notin {2, 4} => si_state' = si_state]_vars

\* A write to port 4 that moved a non-zero high byte down, made with a
\* non-zero offset stored.
C9_Witness ==
    /\ Op.name = "si_port_out"
    /\ Op.args = <<4, 170>>
    /\ si_state.shift_reg = 170 * 256 + 255
    /\ si_state.shift_offset = 3

\* The latch the claim describes: bits 0, 1, 2, 4, 5, 6 of b, and bit 3.
C10_Latch(b) ==
    Bit(b, 0) + 2 * Bit(b, 1) + 4 * Bit(b, 2) + 8 + 16 * Bit(b, 4)
    + 32 * Bit(b, 5) + 64 * Bit(b, 6)

\* C10: si_set_input(b) sets the input latch to b masked to bits 0, 1, 2,
\* 4, 5, 6 with bit 3 set, and changes nothing else; si_get_input and a
\* read of port 1 return the latch.
C10_SetInput ==
    [][/\ OpNext.name = "si_set_input" =>
            /\ si_state' = [si_state EXCEPT !.input_state = C10_Latch(OpNext.args[1])]
            /\ UNCHANGED <<e8080, mem, disk>>
       /\ OpNext.name = "si_get_input" =>
            /\ OpNext.ret = si_state.input_state
            /\ UNCHANGED <<e8080, si_state, mem, disk>>
       /\ (OpNext.name = "si_port_in" /\ OpNext.args = <<1>>) =>
            OpNext.ret = si_state.input_state]_vars

\* si_get_input returning the latch left by si_set_input(0xA5): bit 7
\* dropped, bit 3 set.
C10_Witness ==
    /\ Op.name = "si_get_input"
    /\ Op.ret = 45
    /\ si_state.input_state = 45

\* C11: after si_reset the shift register is 0, the shift offset 0, the
\* input latch 0x08, the frame counter 0, the cycle counter 0, every RAM byte
\* of 0x2000..0x3FFF is 0 and every ROM byte of 0x0000..0x1FFF is as it was.
C11_ResetDefaults ==
    [][OpNext.name = "si_reset" =>
         /\ si_state'.shift_reg = 0
         /\ si_state'.shift_offset = 0
         /\ si_state'.input_state = 8
         /\ si_state'.frame_count = 0
         /\ si_state'.cycle_count = 0
         /\ \A a \in MemAddrs :
               /\ (8192 <= a /\ a <= 16383) => mem'[a] = 0
               /\ (0 <= a /\ a <= 8191) => mem'[a] = mem[a]]_vars

\* A reset of a machine that had none of these at its default.
C11_Witness ==
    /\ Op.name = "si_reset"
    /\ Op.data[1] = 1
    /\ si_state.shift_reg = 0
    /\ \A a \in Range(RamAddrSeq) : mem[a] = 0

\* C12: after si_reset the CPU registers are cleared, the program counter
\* is the reset vector 0x0001, interrupt-enable is cleared and the CPU is
\* not halted.
C12_ResetCpuState ==
    [][OpNext.name = "si_reset" =>
         /\ e8080'.a = 0
         /\ e8080'.sp = 0
         /\ e8080'.pc = 1
         /\ e8080'.IE = 0
         /\ e8080'.halt = FALSE]_vars

\* C13: in every state reached after si_init by CPU stores, si_step_frame,
\* si_step_cycles, si_reset and si_load_state, every byte of the read-only
\* bank 0x0000..0x1FFF has the value it had at the end of si_init.
C13_RomImmutable ==
    \A a \in MemAddrs :
        (0 <= a /\ a <= 8191) =>
            mem[a] = si_init_with_config(DefaultConfig, RomImage).mem[a]

\* A burst whose program stored 0x55 to the last ROM address, after a store
\* to the RAM had gone through and interrupts had pushed onto a stack in ROM.
C13_Witness ==
    /\ Op.name = "si_step_cycles"
    /\ e8080.a = 85
    /\ e8080.sp # 0
    /\ mem[8423] = 171
    /\ mem[8191] # 85

\* C14: si_step_frame and si_step_cycles leave the pixel buffer as it was;
\* the pixel buffer changes only in si_update_framebuffer or when
\* si_load_state replaces the machine state.
C14_SteppingKeepsPixels ==
    [][/\ OpNext.name \in {"si_step_frame", "si_step_cycles"}
          => si_state'.screen_buf = si_state.screen_buf
       /\ si_state'.screen_buf # si_state.screen_buf
          => OpNext.name \in {"si_update_framebuffer", "si_load_state"}]_vars

\* A frame that drew into the video memory after the last decoding: the
\* first pixel is still black although bit 0 of the first video byte is set.
C14_Witness ==
    /\ Op.name = "si_step_frame"
    /\ mem[9216] = 29
    /\ si_state.screen_buf[0] = <<255, 0, 0, 0>>

\* C15: after si_update_framebuffer, for every video address a of
\* 0x2400..0x3FFF and bit i of 0..7, pixel 8*(a - 0x2400) + i is 0xFFFFFFFF
\* if bit i of the byte at a is set and 0xFF000000 if not; the pixels
\* written are those numbered 0 to 256*224 - 1, and nothing outside the
\* pixel buffer changes.
C15_Decoder ==
    [][OpNext.name = "si_update_framebuffer" =>
         /\ \A a \in MemAddrs : \A i \in 0..7 :
               (9216 <= a /\ a <= 16383) =>
                   si_state'.screen_buf[8 * (a - 9216) + i] =
                       IF (mem[a] \div Pow2(i)) % 2 = 1
                       THEN <<255, 255, 255, 255>> ELSE <<255, 0, 0, 0>>
         /\ \A p \in DOMAIN si_state'.screen_buf : 0 <= p /\ p < 256 * 224
         /\ (256 * 224 - 1) \in DOMAIN si_state'.screen_buf
         /\ [si_state' EXCEPT !.screen_buf = si_state.screen_buf] = si_state
         /\ UNCHANGED <<e8080, mem, disk>>]_vars

\* A decoding of a video memory with 0x1D in its first byte and 0xFF in
\* its last.
C15_Witness ==
    /\ Op.name = "si_update_framebuffer"
    /\ mem[9216] = 29
    /\ mem[16383] = 255
    /\ si_state.screen_buf[0] = <<255, 255, 255, 255>>
    /\ si_state.screen_buf[1] = <<255, 0, 0, 0>>
    /\ si_state.screen_buf[57343] = <<255, 255, 255, 255>>

\* C16: si_is_game_over returns true if and only if the CPU is halted, or
\* the alive flag byte at 0x20E7 is 0 and the reserve count byte at 0x21FF
\* is 0.
C16_GameOver ==
    Op.name = "si_is_game_over" =>
        (Op.ret <=> (e8080.halt \/ (mem[8423] = 0 /\ mem[8703] = 0)))

\* The query on a halted CPU with the player alive and ships in reserve.
C16_Witness ==
    /\ Op.name = "si_is_game_over"
    /\ Op.ret = TRUE
    /\ e8080.halt
    /\ mem[8423] = 1
    /\ mem[8703] = 2

\* C17 as stated: with the CPU not halted, the alive flag 0 and the reserve
\* count 0, si_is_game_over is true; with the CPU halted, or the alive flag
\* set, or the reserve count not 0, it is false.
C17_GameOverAsStated ==
    Op.name = "si_is_game_over" =>
        /\ (~e8080.halt /\ mem[8423] = 0 /\ mem[8703] = 0) => Op.ret = TRUE
        /\ (e8080.halt \/ mem[8423] # 0 \/ mem[8703] # 0) => Op.ret = FALSE

\* C17: with the CPU not halted, si_is_game_over is true when the alive
\* flag is 0 and the reserve count is 0, and false when the alive flag is
\* set or the reserve count is not 0; with the CPU halted it is true.
C17_GameOverCases ==
    Op.name = "si_is_game_over" =>
        /\ (~e8080.halt /\ mem[8423] = 0 /\ mem[8703] = 0) => Op.ret = TRUE
        /\ (~e8080.halt /\ (mem[8423] # 0 \/ mem[8703] # 0)) => Op.ret = FALSE
        /\ e8080.halt => Op.ret = TRUE

\* The query with the CPU running, the player dead and ships in reserve.
C17_Witness ==
    /\ Op.name = "si_is_game_over"
    /\ Op.ret = FALSE
    /\ ~e8080.halt
    /\ mem[8423] = 0
    /\ mem[8703] = 2

\* C18: si_get_lives returns the reserve count byte at 0x21FF, plus 1 if
\* the alive flag byte at 0x20E7 is not 0; a sum of 6 is returned as 6, a
\* sum above 6 as 0, so the result is within 0..6.
C18_Lives ==
    Op.name = "si_get_lives" =>
        LET sum == mem[8703] + (IF mem[8423] # 0 THEN 1 ELSE 0)
        IN  /\ sum <= 6 => Op.ret = sum
            /\ sum > 6 => Op.ret = 0
            /\ Op.ret \in 0..6
            /\ (mem[8703] = 2 /\ mem[8423] = 1) => Op.ret = 3
            /\ (mem[8703] = 6 /\ mem[8423] = 0) => Op.ret = 6
            /\ (mem[8703] = 6 /\ mem[8423] = 1) => Op.ret = 0

\* The query with six ships in reserve and the player alive.
C18_Witness ==
    /\ Op.name = "si_get_lives"
    /\ mem[8703] = 6
    /\ mem[8423] = 1
    /\ Op.ret = 0

\* C19: si_get_score reads the bytes at 0x20F8 (low) and 0x20F9 (high) as
\* four BCD digits and returns highHi*1000 + highLo*100 + lowHi*10 + lowLo;
\* for valid BCD bytes the result is within 0..9999, and low 0x23 with high
\* 0x01 gives 123.
C19_Score ==
    Op.name = "si_get_score" =>
        LET low == mem[8440]
            high == mem[8441]
            valid == \A b \in {low, high} : b \div 16 <= 9 /\ b % 16 <= 9
        IN  /\ Op.ret = (high \div 16) * 1000 + (high % 16) * 100
                        + (low \div 16) * 10 + (low % 16)
            /\ valid => Op.ret \in 0..9999
            /\ (low = 35 /\ high = 1) => Op.ret = 123

\* The query with 0x23 in the low byte and 0x01 in the high byte.
C19_Witness ==
    /\ Op.name = "si_get_score"
    /\ mem[8440] = 35
    /\ mem[8441] = 1
    /\ Op.ret = 123

\* The machine m with another headless flag, speed multiplier and uncapped
\* flag.
Repaced(m, h, x, u) ==
    [m EXCEPT !.st.config.headless = h,
              !.st.config.speed_multiplier = x,
              !.st.config.uncapped = u]

\* Two machines that differ at most in the three pacing fields.
SameButPacing(m1, m2) == Repaced(m1, FALSE, 1, FALSE) = Repaced(m2, FALSE, 1, FALSE)

\* C20: a machine and any machine that differs from it only in the headless
\* flag, the speed multiplier and the uncapped flag answer each of
\* si_step_frame, si_step_cycles, si_set_input, si_get_input, the port
\* handlers and si_reset with the same return value and with states that
\* again differ only in these three fields, so that CPU state, RAM, shift
\* register, input latch, frame counter and cycle counter stay identical
\* along any sequence of these calls.
C20_PacingNotActedOn ==
    \A h \in BOOLEAN, x \in Speeds, u \in BOOLEAN :
        LET twin == Repaced(Live, h, x, u)
        IN  /\ LET r == si_step_frame(Live, PacingProg, PacingProg)
                    t == si_step_frame(twin, PacingProg, PacingProg)
                IN  r.ret = t.ret /\ SameButPacing(r.m, t.m)
            /\ \A n \in StepArgs :
                  LET r == si_step_cycles(Live, n, PacingProg)
                      t == si_step_cycles(twin, n, PacingProg)
                  IN  r.ret = t.ret /\ SameButPacing(r.m, t.m)
            /\ \A b \in InputBytes :
                  SameButPacing([Live EXCEPT !.st = si_set_input(Live.st, b)],
                                [twin EXCEPT !.st = si_set_input(twin.st, b)])
            /\ si_get_input(Live.st) = si_get_input(twin.st)
            /\ \A p \in 0..4 :
                  /\ si_port_in(Live.st, p) = si_port_in(twin.st, p)
                  /\ SameButPacing([Live EXCEPT !.st = si_port_out(Live.st, p, 171)],
                                   [twin EXCEPT !.st = si_port_out(twin.st, p, 171)])
            /\ SameButPacing(si_reset(Live), si_reset(twin))

\* A frame run by a machine that was started headless, then capped at
\* double speed, with a button held and the shift register in use.
C20_Witness ==
    /\ Op.name = "si_step_frame"
    /\ si_state.config.headless
    /\ si_state.config.speed_multiplier = 2
    /\ ~si_state.config.uncapped
    /\ si_state.input_state = 127
    /\ si_state.shift_reg # 0
    /\ si_state.frame_count = 2

\* C21: in every state reached after si_init through port writes of any
\* bytes, frames and resets, shift_offset is within 0..7, so that the port
\* 3 read shifts the register right by 1 to 8 places.
C21_ShiftOffsetRange ==
    /\ si_state.shift_offset \in 0..7
    /\ (8 - si_state.shift_offset) \in 1..8

\* A write of 0xFF to port 2, after a frame whose program wrote 0x5D to it.
C21_Witness ==
    /\ Len(log) = 2
    /\ log[1].name = "si_step_frame"
    /\ log[2].name = "si_port_out"
    /\ log[2].args = <<2, 255>>
    /\ si_state.shift_offset = 7

\* C23: after any history, two port 4 writes of a and then b leave the
\* shift register at (b << 8) | a, and a port 3 read that follows, with
\* the stored offset k, returns ((b << k) | (a >> (8 - k))) mod 256: the
\* result is given by the last two bytes written to port 4 and the last
\* offset written to port 2.
C23_TwoByteWindow ==
    (Len(log) >= 4) =>
        LET k == log[2].args[2] % 8
            a == log[3].args[2]
            b == log[4].args[2]
        IN  /\ log[3].name = "si_port_out" /\ log[3].args[1] = 4
            /\ log[4].name = "si_port_out" /\ log[4].args[1] = 4
            /\ si_state.shift_offset = k
            /\ si_state.shift_reg = b * 256 + a
            /\ (Len(log) = 5) =>
                  /\ log[5].name = "si_port_in" /\ log[5].args = <<3>>
                  /\ log[5].ret = (b * Pow2(k) + (a \div Pow2(8 - k))) % 256

\* After a frame that used the shift register: offset 3, bytes 0x81 and
\* 0xAA, and a read of 0x54.
C23_Witness ==
    /\ Len(log) = 5
    /\ log[1].name = "si_step_frame"
    /\ log[2].args = <<2, 3>>
    /\ log[3].args = <<4, 129>>
    /\ log[4].args = <<4, 170>>
    /\ log[5].ret = 84

\* C22: in every state reached after si_init through si_set_input with any
\* bytes, port operations, frames, resets and loads of files saved in such
\* states, the input latch has bit 3 set and bit 7 clear, and a read of
\* port 1 has bit 3 set.
C22_LatchBits ==
    /\ (si_state.input_state \div 8) % 2 = 1
    /\ (si_state.input_state \div 128) % 2 = 0
    /\ (Op.name = "si_port_in" /\ Op.args = <<1>>) => (Op.ret \div 8) % 2 = 1

\* A load that brought back the latch left by si_set_input(0xFF), over a
\* machine that had run a frame.
C22_Witness ==
    /\ Op.name = "si_load_state"
    /\ Op.ret = 0
    /\ si_state.input_state = 127
    /\ mem[8423] = 8
    /\ snap[1][1].st.frame_count = 1

\* C24: right after si_init or si_reset, before any step, the RAM is all
\* zero and the CPU is not halted, and si_is_game_over returns true,
\* si_get_lives 0 and si_get_score 0.
C24_FreshMachineQueries ==
    /\ Op.name \in {"si_init_with_config", "si_reset"} =>
          /\ \A a \in MemAddrs : (8192 <= a /\ a <= 16383) => mem[a] = 0
          /\ ~e8080.halt
          /\ si_is_game_over(Live) = TRUE
          /\ si_get_lives(Live) = 0
          /\ si_get_score(Live) = 0
    /\ (si_state.frame_count = 0 /\ si_state.cycle_count = 0) =>
          /\ Op.name = "si_is_game_over" => (Op.ret = TRUE /\ ~e8080.halt)
          /\ Op.name = "si_get_lives" => Op.ret = 0
          /\ Op.name = "si_get_score" => Op.ret = 0

\* A reset of a machine whose CPU had halted with a game on.
C24_Witness ==
    /\ Op.name = "si_reset"
    /\ Op.data[2] = 1
    /\ ~e8080.halt
    /\ mem[8703] = 0

\* C25: si_reset leaves the configuration record (headless flag, speed
\* multiplier, uncapped flag, the three DIP bytes), the initialized flag
\* and the pixel buffer as they were; the DIP bytes set before the reset
\* are what reads of port 0 and port 2 return after it.
C25_ResetKeepsConfig ==
    [][/\ OpNext.name = "si_reset" =>
             /\ si_state'.config.headless = si_state.config.headless
             /\ si_state'.config.speed_multiplier = si_state.config.speed_multiplier
             /\ si_state'.config.uncapped = si_state.config.uncapped
             /\ si_state'.config.dip_switches = si_state.config.dip_switches
             /\ si_state'.initialized = si_state.initialized
             /\ si_state'.screen_buf = si_state.screen_buf
             /\ si_port_in(si_state', 0) = si_state.config.dip_switches[1]
             /\ si_port_in(si_state', 2) = si_state.config.dip_switches[3]
       /\ (Op.name = "si_reset" /\ OpNext.name = "si_port_in") =>
             OpNext.ret = si_state.config.dip_switches[OpNext.args[1] + 1]]_vars

\* A reset of a headless machine with DIP bytes 1, 2, 254, double speed,
\* capped, and a decoded picture in the pixel buffer.
C25_Witness ==
    /\ Op.name = "si_reset"
    /\ si_state.config.headless
    /\ si_state.config.speed_multiplier = 2
    /\ ~si_state.config.uncapped
    /\ si_state.config.dip_switches = <<1, 2, 254>>
    /\ si_state.screen_buf[0] = <<255, 255, 255, 255>>
    /\ si_state.initialized

====
